---- MODULE Spec2Model ----
(***************************************************************************)
(* PZEM-004T Modbus-RTU driver (src/pzem.py): the PZEM session object, its *)
(* device operations and the CRC-16 engine, with the UART as environment.  *)
(*                                                                         *)
(* Conventions.  A Python list / bytes object is a TLA+ sequence, so the   *)
(* Python index i is the TLA+ index i+1 (At).  A measurement field holds   *)
(* the Python float raw/den as the pair [num |-> raw, den |-> den].  The   *)
(* value None is -1, which no byte, register or address equals.            *)
(***************************************************************************)
EXTENDS Integers, Sequences, FiniteSets, TLC

VARIABLES
    addr,          \* self.addr
    Voltage,       \* self.Voltage
    Current,       \* self.Current
    ActivePower,   \* self.ActivePower
    ActiveEnergy,  \* self.ActiveEnergy
    Frequency,     \* self.Frequency
    PowerFactor,   \* self.PowerFactor
    Allarms,       \* self.Allarms
    threshold,     \* self.threshold
    frame,         \* self.frame: the request last written
    crc16,         \* self.crc16: CRC of the request last built
    rcvFrame,      \* self.rcvFrame: what uart.read returned last
    status,        \* self.status
    readingTime,   \* self.readingTime
    constructed,   \* "no" | "yes" | "error": how PZEM(...) ended
    call,          \* the last call made: [op, arg]
    ret,           \* how the last call ended: a returned value or the error raised
    nWrite,        \* uart.write calls made during the last call
    nRead,         \* uart.read calls made during the last call
    device,        \* what is on the line: "any" (arbitrary replies) | "nominal"
                   \*   | "meter" (nominal, readings vary) | "faulty" (nominal,
                   \*   the uart may fail) | "shared" (nominal, two threads call)
    crcBuf,        \* CRC harness: the frame handed to checkCRC16
    crcFlip,       \* CRC harness: 0, or 1 + the index of the bit flipped in crcBuf
    crcOk,         \* CRC harness: what checkCRC16(crcBuf) returned
    uartLog,       \* the uart calls made during the last call, in order
    tStart,        \* sendCommand's local tStart in the last call
    tEnd,          \* the tick counter when the uart calls of the last call ended
    pending,       \* per caller: the sendCommand it has written for and not yet read
    rxBuf,         \* the UART receive buffer: <<byte, caller whose request it answers>>
    lastRead,      \* whose uart.read returned last, and whose replies it took bytes of
    started,       \* device operations the two threads have started
    rcvList        \* the caller's list (sendCommand's local frame) after checkCRC16(frame)

vars == <<addr, Voltage, Current, ActivePower, ActiveEnergy, Frequency,
          PowerFactor, Allarms, threshold, frame, crc16, rcvFrame, status,
          readingTime, constructed, call, ret, nWrite, nRead, device,
          crcBuf, crcFlip, crcOk, uartLog, tStart, tEnd, pending, rxBuf,
          lastRead, started, rcvList>>

-----------------------------------------------------------------------------
(* Bounds of the model *)

\* Longest message (bytes before the CRC) handed to the CRC harness.
MaxCrcLen == 2

\* Longest reply cut short by the read timeout.
MaxShort == 3

\* Device operations the two threads start, together.
MaxCalls == 3

-----------------------------------------------------------------------------
(* Python integer operators on naturals *)

RECURSIVE XorBits(_, _)
\* a ^ b, bit by bit
XorBits(a, b) ==
    IF a = 0 THEN b
    ELSE IF b = 0 THEN a
    ELSE (((a % 2) + (b % 2)) % 2) + (2 * XorBits(a \div 2, b \div 2))

\* a ^ b for two bytes, tabulated
Xor8 == [a \in 0..255 |-> [b \in 0..255 |-> XorBits(a, b)]]

RECURSIVE BitXor(_, _)
\* a ^ b, byte by byte
BitXor(a, b) ==
    IF a = 0 THEN b
    ELSE IF b = 0 THEN a
    ELSE Xor8[a % 256][b % 256] + (256 * BitXor(a \div 256, b \div 256))

RECURSIVE BitOr(_, _)
\* a | b
BitOr(a, b) ==
    IF a = 0 THEN b
    ELSE IF b = 0 THEN a
    ELSE (IF (a % 2) + (b % 2) > 0 THEN 1 ELSE 0) + (2 * BitOr(a \div 2, b \div 2))

RECURSIVE AndBits(_, _)
\* a & b, bit by bit
AndBits(a, b) ==
    IF a = 0 \/ b = 0 THEN 0
    ELSE ((a % 2) * (b % 2)) + (2 * AndBits(a \div 2, b \div 2))

\* a & b; the mask 0xFF keeps the low eight bits
BitAnd(a, b) == IF b = 255 THEN a % 256 ELSE AndBits(a, b)

\* a << n
Shl(a, n) == a * (2 ^ n)

\* a >> n
Shr(a, n) == a \div (2 ^ n)

\* frame[i] of a Python list: defined for 0 <= i < len(frame) only
At(f, i) == f[i + 1]

-----------------------------------------------------------------------------
(* The CRC-16 engine *)

\* Default ModBus-16 CRC Table
table == <<
    0, 49345, 49537, 320, 49921, 960, 640, 49729,
    50689, 1728, 1920, 51009, 1280, 50625, 50305, 1088,
    52225, 3264, 3456, 52545, 3840, 53185, 52865, 3648,
    2560, 51905, 52097, 2880, 51457, 2496, 2176, 51265,
    55297, 6336, 6528, 55617, 6912, 56257, 55937, 6720,
    7680, 57025, 57217, 8000, 56577, 7616, 7296, 56385,
    5120, 54465, 54657, 5440, 55041, 6080, 5760, 54849,
    53761, 4800, 4992, 54081, 4352, 53697, 53377, 4160,
    61441, 12480, 12672, 61761, 13056, 62401, 62081, 12864,
    13824, 63169, 63361, 14144, 62721, 13760, 13440, 62529,
    15360, 64705, 64897, 15680, 65281, 16320, 16000, 65089,
    64001, 15040, 15232, 64321, 14592, 63937, 63617, 14400,
    10240, 59585, 59777, 10560, 60161, 11200, 10880, 59969,
    60929, 11968, 12160, 61249, 11520, 60865, 60545, 11328,
    58369, 9408, 9600, 58689, 9984, 59329, 59009, 9792,
    8704, 58049, 58241, 9024, 57601, 8640, 8320, 57409,
    40961, 24768, 24960, 41281, 25344, 41921, 41601, 25152,
    26112, 42689, 42881, 26432, 42241, 26048, 25728, 42049,
    27648, 44225, 44417, 27968, 44801, 28608, 28288, 44609,
    43521, 27328, 27520, 43841, 26880, 43457, 43137, 26688,
    30720, 47297, 47489, 31040, 47873, 31680, 31360, 47681,
    48641, 32448, 32640, 48961, 32000, 48577, 48257, 31808,
    46081, 29888, 30080, 46401, 30464, 47041, 46721, 30272,
    29184, 45761, 45953, 29504, 45313, 29120, 28800, 45121,
    20480, 37057, 37249, 20800, 37633, 21440, 21120, 37441,
    38401, 22208, 22400, 38721, 21760, 38337, 38017, 21568,
    39937, 23744, 23936, 40257, 24320, 40897, 40577, 24128,
    23040, 39617, 39809, 23360, 39169, 22976, 22656, 38977,
    34817, 18624, 18816, 35137, 19200, 35777, 35457, 19008,
    19968, 36545, 36737, 20288, 36097, 19904, 19584, 35905,
    17408, 33985, 34177, 17728, 34561, 18368, 18048, 34369,
    33281, 17088, 17280, 33601, 16640, 33217, 32897, 16448
>>

RECURSIVE crcLoop(_, _, _)
\* the for loop of getCRC16: accumulator crc, bytes i.. of f still to come
crcLoop(crc, f, i) ==
    IF i > Len(f) THEN crc
    ELSE crcLoop(BitXor(Shr(crc, 8), At(table, BitAnd(BitXor(crc, f[i]), 255))),
                 f, i + 1)

\* getCRC16 with the accumulator initialised to 0
getCRC16_zeroInit(f) == crcLoop(0, f, 1)

getCRC16(f) == crcLoop(65535, f, 1)

\* The list checkCRC16 leaves in the caller's variable: frame.pop() twice.
popped(f) == SubSeq(f, 1, Len(f) - 2)

\* checkCRC16 comparing the low byte of the CRC only
checkCRC16_lowByte(f) ==
    At(f, Len(f) - 2) = BitAnd(getCRC16(popped(f)), 255)

\* The value checkCRC16 returns, for a list of two elements or more.
checkCRC16(f) ==
    LET CRC_high == f[Len(f)]
        CRC_low  == f[Len(f) - 1]
    IN  BitOr(Shl(CRC_high, 8), CRC_low) = getCRC16(popped(f))

\* checkResponse without the 0x86 code
checkResponse_no86(f) == ~(At(f, 1) = 132 \/ At(f, 1) = 194)

\* checkResponse, for a list of two elements or more.
checkResponse(f) == ~(At(f, 1) = 132 \/ At(f, 1) = 134 \/ At(f, 1) = 194)

\* checkAddr: Python reads  addr > 0xF8 | addr == 0x00  as the chained
\* comparison  addr > (0xF8 | addr)  and  (0xF8 | addr) == 0x00.
checkAddr(a) == ~(a > BitOr(248, a) /\ BitOr(248, a) = 0)

-----------------------------------------------------------------------------
(* The session object *)

\* regAddr=None, opt=None: the defaults of sendCommand, used by resetEnergy
None == -1

\* uart.read(buf) that timed out with no byte received returns None
NoData == <<None>>

\* The Python float raw / den
Float(raw, den) == [num |-> raw, den |-> den]

\* The fields updateValue assigns, as one record
Session ==
    [addr |-> addr, Voltage |-> Voltage, Current |-> Current,
     ActivePower |-> ActivePower, ActiveEnergy |-> ActiveEnergy,
     Frequency |-> Frequency, PowerFactor |-> PowerFactor,
     Allarms |-> Allarms, threshold |-> threshold]

\* word16 shifting the high byte by 4 bits instead of 8
word16_shift4(f, i) == BitOr(Shl(At(f, i), 4), At(f, i + 1))

\* word16 with the two bytes taken in the other order
word16_swapped(f, i) == BitOr(Shl(At(f, i + 1), 8), At(f, i))

\* frame[i] << 8 | frame[i+1]
word16(f, i) == BitOr(Shl(At(f, i), 8), At(f, i + 1))

\* word32 reading the four bytes as one big-endian number
word32_bigEndian(f, i) ==
    BitOr(BitOr(BitOr(Shl(At(f, i), 24), Shl(At(f, i + 1), 16)),
                Shl(At(f, i + 2), 8)), At(f, i + 3))

\* frame[i] << 8 | frame[i+1] | frame[i+2] << 24 | frame[i+3] << 16
word32(f, i) ==
    BitOr(BitOr(BitOr(Shl(At(f, i), 8), At(f, i + 1)), Shl(At(f, i + 2), 24)),
          Shl(At(f, i + 3), 16))

\* The cmd = 0x04 branch of updateValue.  The assignments run in order; the
\* first frame[i] past the end of the list raises IndexError, which the bare
\* except turns into False, and the assignments made before it stay.
updateMeasurements(s, f) ==
    LET n  == Len(f)
        s1 == IF n >= 5  THEN [s  EXCEPT !.Voltage      = Float(word16(f, 3), 10)]    ELSE s
        s2 == IF n >= 9  THEN [s1 EXCEPT !.Current      = Float(word32(f, 5), 1000)]  ELSE s1
        s3 == IF n >= 13 THEN [s2 EXCEPT !.ActivePower  = Float(word32(f, 9), 10)]    ELSE s2
        s4 == IF n >= 17 THEN [s3 EXCEPT !.ActiveEnergy = Float(word32(f, 13), 1000)] ELSE s3
        s5 == IF n >= 19 THEN [s4 EXCEPT !.Frequency    = Float(word16(f, 17), 10)]   ELSE s4
        s6 == IF n >= 21 THEN [s5 EXCEPT !.PowerFactor  = Float(word16(f, 19), 100)]  ELSE s5
        s7 == IF n >= 23 THEN [s6 EXCEPT !.Allarms      = word16(f, 21)]              ELSE s6
    IN  [ok |-> n >= 23, s |-> s7]

\* updateValue(frame, reg) on session s: the value returned and the session left
updateValue(s, f, reg) ==
    LET n      == Len(f)
        raised == [ok |-> FALSE, s |-> s]
        done   == [ok |-> TRUE, s |-> s]
    IN  IF n < 2 THEN raised
        ELSE IF At(f, 1) = 4 THEN updateMeasurements(s, f)
        ELSE IF At(f, 1) = 3 /\ reg = 1 THEN
            IF n >= 5 THEN [ok |-> TRUE, s |-> [s EXCEPT !.threshold = word16(f, 3)]]
            ELSE raised
        ELSE IF At(f, 1) = 3 /\ reg = 2 THEN
            IF n >= 5 THEN [ok |-> TRUE, s |-> [s EXCEPT !.addr = At(f, 4)]]
            ELSE raised
        ELSE IF At(f, 1) = 6 THEN
            IF n < 4 THEN raised
            ELSE IF At(f, 3) = 1 THEN
                IF n >= 6 THEN [ok |-> TRUE, s |-> [s EXCEPT !.threshold = word16(f, 4)]]
                ELSE raised
            ELSE IF At(f, 3) = 2 THEN
                IF n >= 6 THEN [ok |-> TRUE, s |-> [s EXCEPT !.addr = At(f, 5)]]
                ELSE raised
            ELSE done
        ELSE done

\* packBBHH packing opt low byte first
packBBHH_optLowFirst(a, cmd, regAddr, opt) ==
    <<a, cmd, Shr(regAddr, 8), BitAnd(regAddr, 255), BitAnd(opt, 255), Shr(opt, 8)>>

\* struct.pack(">BBHH", addr, cmd, regAddr, opt), for a <= 0xFF, opt <= 0xFFFF
packBBHH(a, cmd, regAddr, opt) ==
    <<a, cmd, Shr(regAddr, 8), BitAnd(regAddr, 255), Shr(opt, 8), BitAnd(opt, 255)>>

\* body followed by the two bytes of crc, low byte first, and crc itself
appendCRC(body, crc) ==
    [frame |-> body \o <<BitAnd(crc, 255), BitAnd(Shr(crc, 8), 255)>>,
     crc16 |-> crc]

\* The frame sendCommand writes to the UART, the packed command followed by
\* crc_l and crc_h, and the CRC it keeps in self.crc16
buildFrame(a, cmd, regAddr, opt) ==
    IF cmd = 66
    THEN appendCRC(<<a, cmd>>, getCRC16(<<a, cmd>>))
    ELSE appendCRC(packBBHH(a, cmd, regAddr, opt),
                   getCRC16(packBBHH(a, cmd, regAddr, opt)))

\* lengthMatches accepting shorter replies too
lengthMatches_atMost(f, buf) == Len(f) <= buf - 2

\* len(frame) == (buf - 2), on the list checkCRC16 has popped
lengthMatches(f, buf) == Len(f) = buf - 2

\* What sendCommand returns once updateValue has returned u
verdict(u) == [ret |-> IF u.ok THEN "True" ELSE "False", s |-> u.s]

\* The condition of sendCommand's if, evaluated left to right on the received
\* bytes: "TypeError" / "IndexError" when an operand raises, else the session
\* updateValue leaves.  Yields [ret, s].
decide(s, rcv, reg, buf) ==
    IF rcv = NoData THEN [ret |-> "TypeError", s |-> s]
    ELSE IF Len(rcv) < 2 THEN [ret |-> "IndexError", s |-> s]
    ELSE IF ~checkCRC16(rcv) THEN [ret |-> "False", s |-> s]
    ELSE IF Len(popped(rcv)) < 2 THEN [ret |-> "IndexError", s |-> s]
    ELSE IF ~checkResponse(popped(rcv)) THEN [ret |-> "False", s |-> s]
    ELSE IF ~lengthMatches(popped(rcv), buf) THEN [ret |-> "False", s |-> s]
    ELSE verdict(updateValue(s, popped(rcv), reg))

\* time.ticks_ms() - tStart, for the two samples t0 and t1 of the counter
elapsed(t0, t1) == t1 - t0

\* sendCommand's local frame = list(self.rcvFrame) once checkCRC16(frame) has
\* returned or raised: the list is never made when uart.read returned None
checkedList(rcv) == IF rcv = NoData THEN NoData ELSE popped(rcv)

\* Everything a sendCommand leaves behind: sent is the request built, d the
\* outcome of the if, rcv what the UART returned
exchanged(sent, d, rcv, t0, t1) ==
    [s           |-> d.s,
     ret         |-> d.ret,
     frame       |-> sent.frame,
     crc16       |-> sent.crc16,
     rcvFrame    |-> rcv,
     rcvList     |-> checkedList(rcv),
     readingTime |-> elapsed(t0, t1),
     nWrite      |-> 1,
     nRead       |-> 1]

\* sendCommand on session s once it has built and written the request sent,
\* the UART answering the read with rcv and the tick counter reading t0 at the
\* start and t1 after the read
sendCommand(s, sent, regAddr, buf, rcv, t0, t1) ==
    exchanged(sent, decide(s, rcv, regAddr, buf), rcv, t0, t1)

-----------------------------------------------------------------------------
(* The environment: what the UART hands back, and the arguments tried *)

\* The register bytes the simulated device reports: voltage 0x08FC, current
\* 01 2C 00 00, power 02 A3 00 00, energy 00 0A 00 01, frequency 0x01F4,
\* power factor 0x0064, alarm 0xFFFF
Measured == <<8, 252, 1, 44, 0, 0, 2, 163, 0, 0, 0, 10, 0, 1, 1, 244, 0, 100, 255, 255>>

\* A message body of n bytes from slave 1 with function code fc.  A write
\* acknowledgement (0x06) names register reg and carries the first register
\* bytes as its value; any other body carries a byte count and the register
\* bytes.
Body(n, fc, reg) ==
    [i \in 1..n |->
        IF i = 1 THEN 1
        ELSE IF i = 2 THEN fc
        ELSE IF fc = 6
             THEN (IF i = 3 THEN 0 ELSE IF i = 4 THEN reg ELSE Measured[i - 4])
             ELSE (IF i = 3 THEN n - 3 ELSE Measured[i - 3])]

\* body followed by its CRC, low byte first
WithCRC(body) == appendCRC(body, getCRC16(body)).frame

\* body followed by a CRC whose low byte is off by one
BadCRC(body) ==
    body \o <<(BitAnd(getCRC16(body), 255) + 1) % 256,
              BitAnd(Shr(getCRC16(body), 8), 255)>>

\* Function codes of the device's exception replies
ExceptionCodes == {132, 134, 194}

\* A reply the read timeout cut to n bytes: nothing, one byte, the CRC of the
\* empty message, or a short message with its CRC
Truncated(n) ==
    CASE n = 0 -> <<>>
      [] n = 1 -> <<1>>
      [] n = 2 -> <<255, 255>>
      [] OTHER -> WithCRC(Body(n - 2, 4, None))

\* The replies shorter than any expected one: no data at all, the truncated
\* ones, three bytes with an exception code, and the device's five-byte
\* exception reply (slave, code, error, CRC)
ShortReplies ==
    {NoData} \cup {Truncated(n) : n \in 0..MaxShort}
    \cup {<<1, 132, 127>>, WithCRC(<<1, 132, 2>>)}

\* Replies of exactly buf bytes: exception codes with a good and with a bad
\* CRC, and every function code updateValue tells apart
FullReplies(buf) ==
    {WithCRC(Body(buf - 2, fc, None)) : fc \in ExceptionCodes \cup {3, 4, 66}}
    \cup {BadCRC(Body(buf - 2, 132, None))}
    \cup {WithCRC(Body(buf - 2, 6, reg)) : reg \in {1, 2}}

\* s cut to the n bytes uart.read(n) returns at most
Take(s, n) == IF s = NoData \/ Len(s) <= n THEN s ELSE SubSeq(s, 1, n)

\* The replies that do not depend on the request, for the expected length
\* buf: the short ones, one that is a single byte short, the full-length ones
DeviceReplies(buf) ==
    {Take(r, buf) : r \in ShortReplies}
    \cup {WithCRC(Body(buf - 3, 4, None))}
    \cup FullReplies(buf)

\* ... for each buf argument the device operations use
Replies4 == DeviceReplies(4)
Replies7 == DeviceReplies(7)
Replies8 == DeviceReplies(8)
Replies25 == DeviceReplies(25)

\* What uart.read(buf) may return from an arbitrary line after the request
\* sent was written: at most buf bytes; among them the request echoed back
Replies(buf, sent) ==
    (CASE buf = 4 -> Replies4 [] buf = 7 -> Replies7 [] buf = 8 -> Replies8
       [] OTHER -> Replies25)
    \cup {Take(sent, buf)}

\* The answer of a device that works, holds the session's address and
\* threshold in its registers and measures Measured: the registers read, or
\* the request echoed (write single register, reset energy)
NominalReply(sent, s) ==
    CASE sent[2] = 4 -> WithCRC(<<sent[1], 4, 20>> \o Measured)
      [] sent[2] = 3 /\ sent[4] = 1 ->
            WithCRC(<<sent[1], 3, 2, Shr(s.threshold, 8), BitAnd(s.threshold, 255)>>)
      [] sent[2] = 3 /\ sent[4] = 2 -> WithCRC(<<sent[1], 3, 2, 0, sent[1]>>)
      [] OTHER -> sent

\* Register bytes a meter reports at different times: the reading above, one
\* with voltage 0x08CA (225.0 V), one with every byte different and the high
\* words set, and one of extreme values
Readings ==
    {Measured,
     <<8, 202, 1, 44, 0, 0, 2, 163, 0, 0, 0, 10, 0, 1, 1, 244, 0, 100, 0, 0>>,
     <<9, 1, 18, 52, 86, 120, 101, 88, 3, 222, 112, 17, 34, 51, 2, 88, 0, 95, 0, 1>>,
     <<255, 255, 255, 255, 127, 255, 0, 0, 0, 0, 127, 255, 0, 0, 255, 255, 255, 255, 128, 0>>}

\* The answers of a working device whose measurements vary
MeterReplies(sent, s) ==
    IF sent[2] = 4
    THEN {WithCRC(<<sent[1], 4, 20>> \o r) : r \in Readings}
    ELSE {NominalReply(sent, s)}

\* What uart.read(buf) may return to session s after it wrote sent
Line(buf, sent, s) ==
    CASE device = "any" -> Replies(buf, sent)
      [] device \in {"meter", "longrun"}
            -> {Take(r, buf) : r \in MeterReplies(sent, s)}
      [] OTHER -> {Take(NominalReply(sent, s), buf)}

\* Addresses passed to setAddress: on an arbitrary line, and to a device that
\* works (its slave addresses, and 0xF8)
AddrArgs ==
    CASE device = "nominal" -> {1, 2, 5, 6, 127, 128, 132, 134, 194, 247, 248}
      [] device = "any" -> {0, 5, 249}
      [] device = "meter" -> {5, 247}
      [] OTHER -> {5}

\* Addresses passed to PZEM(uart, addr)
InitAddrArgs ==
    CASE device = "nominal" -> {5, 248}
      [] device = "any" -> {0, 5, 248, 249}
      [] OTHER -> {248}

\* Thresholds passed to setThreshold
ThrArgs ==
    IF device = "nominal" THEN {0, 1, 255, 256, 258, 1537, 2300, 33924, 65535}
    ELSE {2300}

\* The period of time.ticks_ms(): the counter counts 0 .. TicksPeriod - 1 and
\* starts again from 0 (MicroPython on the ESP32: TICKS_MAX + 1 = 2^30)
TicksPeriod == 1073741824

\* Samples of time.ticks_ms() at the start of a call and after its read
TicksStart ==
    CASE device = "faulty" -> {0, 250}
      [] device = "longrun" -> {0, TicksPeriod - 500}
      [] OTHER -> {0}
TicksEnd == {1000}

\* A uart call that raises OSError instead of returning
WriteFault == <<"uart.write">>
ReadFault == <<"uart.read">>

\* The line faults that can hit one sendCommand
LineFaults == IF device = "faulty" THEN {WriteFault, ReadFault} ELSE {}

\* Bytes of the messages handed to the CRC harness
CrcBytes == {0, 1, 4, 132, 170, 255}

\* The messages handed to the CRC harness
CrcMessages == UNION {[1..n -> CrcBytes] : n \in 0..MaxCrcLen}

\* frame with bit k flipped, bit 0 being the lowest bit of the first byte
flipBit(f, k) ==
    [f EXCEPT ![(k \div 8) + 1] = BitXor(f[(k \div 8) + 1], 2 ^ (k % 8))]

-----------------------------------------------------------------------------
(* The state machine *)

\* The threads that call the object
Callers == {1, 2}

\* A caller that is inside no sendCommand
Idle == [op |-> "none"]

\* The class attributes of PZEM, before any object is made; nobody has called
ClassDefaults ==
    /\ addr = 248
    /\ Voltage = Float(0, 1)
    /\ Current = Float(0, 1)
    /\ ActivePower = Float(0, 1)
    /\ ActiveEnergy = Float(0, 1)
    /\ Frequency = Float(0, 1)
    /\ PowerFactor = Float(0, 1)
    /\ Allarms = 0
    /\ threshold = 0
    /\ frame = NoData
    /\ crc16 = 0
    /\ rcvFrame = NoData
    /\ status = FALSE
    /\ readingTime = 0
    /\ constructed = "no"
    /\ call = [op |-> "none", arg |-> None]
    /\ ret = "None"
    /\ nWrite = 0
    /\ nRead = 0
    /\ uartLog = <<>>
    /\ tStart = None
    /\ tEnd = None
    /\ pending = [c \in Callers |-> Idle]
    /\ rxBuf = <<>>
    /\ lastRead = [by |-> None, of |-> {}]
    /\ started = 0
    /\ rcvList = NoData

\* The class attributes, on an arbitrary line; the CRC harness at rest
Init ==
    /\ ClassDefaults
    /\ device = "any"
    /\ crcBuf = <<255, 255>>
    /\ crcFlip = 0
    /\ crcOk = TRUE

\* The fields updateValue assigns take their values from record s
StoreSession(s) ==
    /\ addr' = s.addr
    /\ Voltage' = s.Voltage
    /\ Current' = s.Current
    /\ ActivePower' = s.ActivePower
    /\ ActiveEnergy' = s.ActiveEnergy
    /\ Frequency' = s.Frequency
    /\ PowerFactor' = s.PowerFactor
    /\ Allarms' = s.Allarms
    /\ threshold' = s.threshold

\* Everything a finished sendCommand r leaves in the object and the UART double
StoreFields(r) ==
    /\ StoreSession(r.s)
    /\ frame' = r.frame
    /\ crc16' = r.crc16
    /\ rcvFrame' = r.rcvFrame
    /\ rcvList' = r.rcvList
    /\ readingTime' = r.readingTime
    /\ nWrite' = r.nWrite
    /\ nRead' = r.nRead

\* ... and what the device operation returns or raises
StoreExchange(r) ==
    /\ StoreFields(r)
    /\ ret' = r.ret

\* __init__ after its readAddress ended as r: status is set, or the error goes
\* to the caller
StoreConstructed(r) ==
    /\ StoreFields(r)
    /\ status' = (r.ret = "True")
    /\ constructed' = IF r.ret = "True" THEN "yes" ELSE "error"
    /\ ret' = CASE r.ret = "True" -> "None"
                [] r.ret = "False" -> "Exception(0x02)"
                [] OTHER -> r.ret

\* transportCalls reading before it writes
transportCalls_readFirst(sent, buf) ==
    <<[f |-> "read", n |-> buf], [f |-> "write", n |-> Len(sent.frame)]>>

\* The uart calls of one sendCommand: write(self.frame), then read(buf)
transportCalls(sent, buf) ==
    <<[f |-> "write", n |-> Len(sent.frame)], [f |-> "read", n |-> buf]>>

\* The tick samples and uart calls of a sendCommand
StoreTrace(sent, buf, t0, t1) ==
    /\ uartLog' = transportCalls(sent, buf)
    /\ tStart' = t0
    /\ tEnd' = t1

\* The uart calls made when fault hits: the write, and the read if reached
faultedCalls(sent, buf, fault) ==
    IF fault = WriteFault THEN <<[f |-> "write", n |-> Len(sent.frame)]>>
    ELSE transportCalls(sent, buf)

\* sendCommand left by the OSError of a uart call: self.frame and self.crc16
\* are assigned, nothing after the failing call is
Faulted(sent, buf, fault, t0, t1) ==
    /\ frame' = sent.frame
    /\ crc16' = sent.crc16
    /\ uartLog' = faultedCalls(sent, buf, fault)
    /\ nWrite' = 1
    /\ nRead' = Len(faultedCalls(sent, buf, fault)) - 1
    /\ tStart' = t0
    /\ tEnd' = t1
    /\ ret' = "OSError"
    /\ UNCHANGED <<Voltage, Current, ActivePower, ActiveEnergy, Frequency,
                   PowerFactor, Allarms, threshold, rcvFrame, readingTime,
                   rcvList>>

\* sendCommand called on the object with request sent already built
Exchanging(sent, regAddr, buf) ==
    \E t0 \in TicksStart, t1 \in TicksEnd :
    \E rcv \in Line(buf, sent.frame, Session) \cup LineFaults :
        IF rcv \in LineFaults
        THEN Faulted(sent, buf, rcv, t0, t1) /\ addr' = addr
        ELSE /\ StoreExchange(sendCommand(Session, sent, regAddr, buf, rcv, t0, t1))
             /\ StoreTrace(sent, buf, t0, t1)

\* A device operation that is one sendCommand
Exchange(op, arg, cmd, regAddr, opt, buf) ==
    /\ constructed = "yes"
    /\ Exchanging(buildFrame(addr, cmd, regAddr, opt), regAddr, buf)
    /\ call' = [op |-> op, arg |-> arg]
    /\ UNCHANGED <<status, constructed, device, crcBuf, crcFlip, crcOk,
                   pending, rxBuf, lastRead, started>>

\* __init__ from self.addr = a on: readAddress with request sent already built
Constructing(a, sent) ==
    \E t0 \in TicksStart, t1 \in TicksEnd :
    \E rcv \in Line(7, sent.frame, [Session EXCEPT !.addr = a]) \cup LineFaults :
        IF rcv \in LineFaults
        THEN /\ Faulted(sent, 7, rcv, t0, t1)
             /\ addr' = a
             /\ constructed' = "error"
             /\ status' = status
        ELSE /\ StoreConstructed(
                   sendCommand([Session EXCEPT !.addr = a], sent, 2, 7, rcv, t0, t1))
             /\ StoreTrace(sent, 7, t0, t1)

\* PZEM(uart, addr=a)
Construct ==
    /\ constructed = "no"
    /\ \E a \in InitAddrArgs :
       /\ call' = [op |-> "__init__", arg |-> a]
       /\ IF checkAddr(a)
          THEN Constructing(a, buildFrame(a, 3, 2, 1))
          ELSE /\ ret' = "Exception(0x01)"
               /\ constructed' = "error"
               /\ nWrite' = 0
               /\ nRead' = 0
               /\ uartLog' = <<>>
               /\ UNCHANGED <<addr, Voltage, Current, ActivePower, ActiveEnergy,
                              Frequency, PowerFactor, Allarms, threshold, frame,
                              crc16, rcvFrame, status, readingTime, tStart, tEnd,
                              rcvList>>
    /\ UNCHANGED <<device, crcBuf, crcFlip, crcOk, pending, rxBuf, lastRead, started>>

read == Exchange("read", None, 4, 0, 10, 25)

readAddress == Exchange("readAddress", None, 3, 2, 1, 7)

readThreshold == Exchange("readThreshold", None, 3, 1, 1, 7)

resetEnergy == Exchange("resetEnergy", None, 66, None, None, 4)

setThreshold == \E thr \in ThrArgs : Exchange("setThreshold", thr, 6, 1, thr, 8)

\* setAddress(a): the else branch builds an Exception and drops it, so the call
\* returns None without touching the UART
setAddress ==
    \E a \in AddrArgs :
        IF checkAddr(a)
        THEN Exchange("setAddress", a, 6, 2, a, 8)
        ELSE /\ constructed = "yes"
             /\ call' = [op |-> "setAddress", arg |-> a]
             /\ ret' = "None"
             /\ nWrite' = 0
             /\ nRead' = 0
             /\ uartLog' = <<>>
             /\ UNCHANGED <<addr, Voltage, Current, ActivePower, ActiveEnergy,
                            Frequency, PowerFactor, Allarms, threshold, frame,
                            crc16, rcvFrame, status, readingTime, constructed,
                            device, crcBuf, crcFlip, crcOk, tStart, tEnd,
                            pending, rxBuf, lastRead, started, rcvList>>

Next ==
    \/ Construct
    \/ read
    \/ readAddress
    \/ readThreshold
    \/ resetEnergy
    \/ setThreshold
    \/ setAddress

Spec == Init /\ [][Next]_vars

\* The same object on a line with a device that works
InitNominal ==
    /\ ClassDefaults
    /\ device = "nominal"
    /\ crcBuf = <<255, 255>>
    /\ crcFlip = 0
    /\ crcOk = TRUE

SpecNominal == InitNominal /\ [][Next]_vars

-----------------------------------------------------------------------------
(* The CRC harness: checkCRC16 on a message with its CRC, then on the same  *)
(* frame with one bit flipped                                               *)

InitCRC ==
    /\ ClassDefaults
    /\ device = "any"
    /\ crcBuf \in {WithCRC(b) : b \in CrcMessages}
    /\ crcFlip = 0
    /\ crcOk = checkCRC16(crcBuf)

FlipBit ==
    /\ crcFlip = 0
    /\ \E k \in 0..(8 * Len(crcBuf) - 1) :
        /\ crcBuf' = flipBit(crcBuf, k)
        /\ crcFlip' = k + 1
        /\ crcOk' = checkCRC16(flipBit(crcBuf, k))
        /\ rcvList' = popped(flipBit(crcBuf, k))
    /\ UNCHANGED <<addr, Voltage, Current, ActivePower, ActiveEnergy, Frequency,
                   PowerFactor, Allarms, threshold, frame, crc16, rcvFrame,
                   status, readingTime, constructed, call, ret, nWrite, nRead,
                   device, uartLog, tStart, tEnd, pending, rxBuf, lastRead, started>>

NextCRC == FlipBit

SpecCRC == InitCRC /\ [][NextCRC]_vars

-----------------------------------------------------------------------------
(* A working meter whose readings vary *)

InitMeter ==
    /\ ClassDefaults
    /\ device = "meter"
    /\ crcBuf = <<255, 255>>
    /\ crcFlip = 0
    /\ crcOk = TRUE

SpecMeter == InitMeter /\ [][Next]_vars

-----------------------------------------------------------------------------
(* A working meter behind a UART whose write and read may raise OSError,   *)
(* with round trips of different lengths                                    *)

InitFaulty ==
    /\ ClassDefaults
    /\ device = "faulty"
    /\ crcBuf = <<255, 255>>
    /\ crcFlip = 0
    /\ crcOk = TRUE

SpecFaulty == InitFaulty /\ [][Next]_vars

-----------------------------------------------------------------------------
(* A working meter polled for so long that the tick counter comes to the   *)
(* end of its period: a call starts either at tick 0 or 500 ms before the  *)
(* counter starts again from 0                                             *)

InitLongRun ==
    /\ ClassDefaults
    /\ device = "longrun"
    /\ crcBuf = <<255, 255>>
    /\ crcFlip = 0
    /\ crcOk = TRUE

SpecLongRun == InitLongRun /\ [][Next]_vars

-----------------------------------------------------------------------------
(* Two threads calling one object.  sendCommand takes no lock, and its      *)
(* time.sleep(1) between uart.write and uart.read lets the other thread     *)
(* run: a call is the two steps Write and Read.  The device answers each    *)
(* request while the writer sleeps; the UART keeps the answers in arrival   *)
(* order.  uartLog, nWrite, nRead, tStart and tEnd describe a single        *)
(* caller's last call and are not kept here.                                *)

\* The sendCommand calls the device operations make:
\* [op, arg, cmd, regAddr, opt, buf]
Requests ==
    {[op |-> "read", arg |-> None, cmd |-> 4, regAddr |-> 0, opt |-> 10, buf |-> 25],
     [op |-> "readAddress", arg |-> None, cmd |-> 3, regAddr |-> 2, opt |-> 1, buf |-> 7],
     [op |-> "readThreshold", arg |-> None, cmd |-> 3, regAddr |-> 1, opt |-> 1, buf |-> 7],
     [op |-> "resetEnergy", arg |-> None, cmd |-> 66, regAddr |-> None, opt |-> None, buf |-> 4]}
    \cup {[op |-> "setThreshold", arg |-> thr, cmd |-> 6, regAddr |-> 1, opt |-> thr, buf |-> 8] :
            thr \in ThrArgs}
    \cup {[op |-> "setAddress", arg |-> a, cmd |-> 6, regAddr |-> 2, opt |-> a, buf |-> 8] :
            a \in {x \in AddrArgs : checkAddr(x)}}

\* The bytes of reply, each with the caller c whose request they answer
Answering(reply, c) == [i \in 1..Len(reply) |-> <<reply[i], c>>]

\* The bytes uart.read(n) takes from the receive buffer b: None when the
\* buffer is empty at the timeout
Taken(b, n) ==
    IF Len(b) = 0 THEN NoData
    ELSE [i \in 1..(IF Len(b) < n THEN Len(b) ELSE n) |-> b[i][1]]

\* ... whose requests they answer
TakenOf(b, n) == {b[i][2] : i \in 1..(IF Len(b) < n THEN Len(b) ELSE n)}

\* ... and what stays in the buffer
Left(b, n) == IF Len(b) <= n THEN <<>> ELSE SubSeq(b, n + 1, Len(b))

\* Caller c enters sendCommand for rq, the request built being sent: it
\* stores and writes the frame, then sleeps; the device answers
Written(c, rq, sent, t0) ==
    /\ frame' = sent.frame
    /\ crc16' = sent.crc16
    /\ rxBuf' = rxBuf \o Answering(NominalReply(sent.frame, Session), c)
    /\ pending' = [pending EXCEPT ![c] =
                      [op |-> rq.op, arg |-> rq.arg, regAddr |-> rq.regAddr,
                       buf |-> rq.buf, t0 |-> t0]]

\* Caller c starts a device operation
Write(c) ==
    /\ constructed = "yes"
    /\ pending[c] = Idle
    /\ started < MaxCalls
    /\ started' = started + 1
    /\ \E rq \in Requests, t0 \in TicksStart :
         Written(c, rq, buildFrame(addr, rq.cmd, rq.regAddr, rq.opt), t0)
    /\ UNCHANGED <<addr, Voltage, Current, ActivePower, ActiveEnergy, Frequency,
                   PowerFactor, Allarms, threshold, rcvFrame, status,
                   readingTime, constructed, call, ret, nWrite, nRead, device,
                   crcBuf, crcFlip, crcOk, uartLog, tStart, tEnd, lastRead,
                   rcvList>>

\* Caller c wakes up inside sendCommand p: it reads, takes the time, decides
\* on what it read (d) and returns
ReadDone(c, p, rcv, d, t1) ==
    /\ rcvFrame' = rcv
    /\ rcvList' = checkedList(rcv)
    /\ readingTime' = elapsed(p.t0, t1)
    /\ StoreSession(d.s)
    /\ ret' = d.ret
    /\ call' = [op |-> p.op, arg |-> p.arg]
    /\ lastRead' = [by |-> c, of |-> TakenOf(rxBuf, p.buf)]
    /\ rxBuf' = Left(rxBuf, p.buf)
    /\ pending' = [pending EXCEPT ![c] = Idle]

\* Caller c finishes its device operation
Read(c) ==
    /\ pending[c] # Idle
    /\ \E t1 \in TicksEnd :
         ReadDone(c, pending[c], Taken(rxBuf, pending[c].buf),
                  decide(Session, Taken(rxBuf, pending[c].buf),
                         pending[c].regAddr, pending[c].buf), t1)
    /\ UNCHANGED <<frame, crc16, status, constructed, nWrite, nRead, device,
                   crcBuf, crcFlip, crcOk, uartLog, tStart, tEnd, started>>

InitConcurrent ==
    /\ ClassDefaults
    /\ device = "shared"
    /\ crcBuf = <<255, 255>>
    /\ crcFlip = 0
    /\ crcOk = TRUE

NextConcurrent ==
    \/ Construct
    \/ \E c \in Callers : Write(c)
    \/ \E c \in Callers : Read(c)

SpecConcurrent == InitConcurrent /\ [][NextConcurrent]_vars

-----------------------------------------------------------------------------
(* Vocabulary of the properties *)

\* The device operations of the public interface
DeviceOps ==
    {"read", "readAddress", "setAddress", "readThreshold", "setThreshold",
     "resetEnergy"}

\* The buf argument each device operation gives sendCommand
ExpectedLen ==
    [read |-> 25, readAddress |-> 7, readThreshold |-> 7, setAddress |-> 8,
     setThreshold |-> 8, resetEnergy |-> 4]

\* The seven measurement fields
Measurements ==
    <<Voltage, Current, ActivePower, ActiveEnergy, Frequency, PowerFactor, Allarms>>

\* The last call was a device operation on a constructed object
Called == constructed = "yes" /\ call.op \in DeviceOps

\* The last call received bytes (not None), n of them or more
Received(n) == rcvFrame # NoData /\ Len(rcvFrame) >= n

-----------------------------------------------------------------------------
(* Properties *)

\* C1 (no partial commit): a device operation that returns False leaves every
\* session field (address, measurements, threshold) as it was before the call.
C1_NoPartialCommit ==
    [][(constructed = "yes" /\ call'.op \in DeviceOps /\ ret' = "False")
           => Session' = Session]_vars

\* C2 (timeout handling): when the read returned no data or fewer bytes than
\* expected, the device operation ends by returning False; it raises nothing.
C2_ShortReadReturnsFailure ==
    (Called /\ nRead = 1
        /\ (rcvFrame = NoData \/ Len(rcvFrame) < ExpectedLen[call.op]))
    => ret = "False"

\* C3 (address validation before I/O): setAddress(a) with a outside 0x01..0xF8
\* fails with the invalid-address error and writes nothing to the UART, and
\* checkAddr(a) is true exactly for 0x01 <= a <= 0xF8.
C3_InvalidAddressRejectedBeforeIO ==
    /\ (Called /\ call.op = "setAddress" /\ call.arg \notin 1..248)
          => (ret = "Exception(0x01)" /\ nWrite = 0)
    /\ (Called /\ call.op = "setAddress")
          => (checkAddr(call.arg) <=> call.arg \in 1..248)

\* C4 (address invariant): once construction has succeeded the session address
\* is in 0x01..0xF8, whatever operations follow and whatever the device replies.
C4_AddressInRange == constructed = "yes" => addr \in 1..248

\* C5 (read commits on success): when read() returns True the reply was 25
\* bytes long with a valid CRC and function code 0x04, and the seven
\* measurement fields hold the values decoded from that reply.
C5_ReadSuccessCommits ==
    (Called /\ call.op = "read" /\ ret = "True")
    => /\ Received(25) /\ Len(rcvFrame) = 25
       /\ checkCRC16(rcvFrame)
       /\ At(rcvFrame, 1) = 4
       /\ Voltage = Float(word16(rcvFrame, 3), 10)
       /\ Current = Float(word32(rcvFrame, 5), 1000)
       /\ ActivePower = Float(word32(rcvFrame, 9), 10)
       /\ ActiveEnergy = Float(word32(rcvFrame, 13), 1000)
       /\ Frequency = Float(word16(rcvFrame, 17), 10)
       /\ PowerFactor = Float(word16(rcvFrame, 19), 100)
       /\ Allarms = word16(rcvFrame, 21)

\* C6 (setAddress commits the new address): when setAddress(a) returns True
\* the session address is a, and the request written next carries a in byte 0.
C6_SetAddressCommits ==
    [][/\ (constructed = "yes" /\ call'.op = "setAddress" /\ ret' = "True"
              /\ call'.arg \in 1..248)
             => addr' = call'.arg
       /\ (Called /\ call.op = "setAddress" /\ ret = "True" /\ nWrite' = 1)
             => At(frame', 0) = call.arg]_vars

\* C7 (write-acknowledgement round trip): when the device answers a
\* write-single-register request by echoing the 8 bytes written, setThreshold(v)
\* returns True with threshold = v and setAddress(a) returns True with addr = a.
C7_WriteAckRoundTrip ==
    (Called /\ call.op \in {"setThreshold", "setAddress"} /\ nWrite = 1
        /\ rcvFrame = frame)
    => /\ ret = "True"
       /\ call.op = "setThreshold" => threshold = call.arg
       /\ call.op = "setAddress" => addr = call.arg

\* C7 witness: setThreshold(0x8484) was echoed and took effect on a session
\* whose address an echoed setAddress(0x84) had set
C7_Witness ==
    /\ Called /\ call = [op |-> "setThreshold", arg |-> 33924]
    /\ nWrite = 1 /\ rcvFrame = frame /\ Len(frame) = 8
    /\ ret = "True" /\ threshold = 33924 /\ addr = 132

\* C8 (CRC accept / reject): checkCRC16 accepts a message followed by the low
\* and high byte of its getCRC16, and rejects that frame once any single bit
\* of the message or of the two CRC bytes is flipped.
C8_CrcAcceptReject ==
    /\ crcFlip = 0 => crcOk
    /\ crcFlip > 0 => ~crcOk

\* C8 witness: a bit of the high CRC byte of a two-byte message was flipped
\* and the frame was rejected
C8_Witness ==
    /\ Len(crcBuf) = 4 /\ crcFlip > 24
    /\ crcOk = checkCRC16(crcBuf) /\ ~crcOk

\* C9 (device exception replies are rejected): a reply whose function-code
\* byte (offset 1) is 0x84, 0x86 or 0xC2 makes the device operation return
\* False with no session field changed, the CRC of the reply valid or not.
C9_ExceptionReplyRejected ==
    [][(constructed = "yes" /\ call'.op \in DeviceOps /\ nRead' = 1
            /\ rcvFrame' # NoData /\ Len(rcvFrame') >= 2
            /\ At(rcvFrame', 1) \in ExceptionCodes)
           => (ret' = "False" /\ Session' = Session)]_vars

\* C9 witness: a full-length exception reply with a valid CRC was rejected
C9_Witness ==
    /\ Called /\ call.op = "setThreshold" /\ Received(8)
    /\ At(rcvFrame, 1) = 134 /\ checkCRC16(rcvFrame)
    /\ ret = "False"

\* C10 (exact reply length): a device operation returns True only if it
\* received exactly the number of bytes expected for its command, and a
\* 24-byte reply to read() is rejected with the measurement fields unchanged.
C10_ExactReplyLength ==
    [][(constructed = "yes" /\ call'.op \in DeviceOps)
           => /\ ret' = "True"
                    => (rcvFrame' # NoData /\ Len(rcvFrame') = ExpectedLen[call'.op])
              /\ (call'.op = "read" /\ rcvFrame' # NoData /\ Len(rcvFrame') = 24)
                    => (ret' = "False" /\ Measurements' = Measurements)]_vars

\* C10 witness: read() got 24 bytes with a valid CRC after an earlier read()
\* had measured, refused them and kept the measurements
C10_Witness ==
    /\ Called /\ call.op = "read" /\ Received(24) /\ Len(rcvFrame) = 24
    /\ checkCRC16(rcvFrame)
    /\ ret = "False"
    /\ Voltage = Float(2300, 10) /\ Allarms = 65535

\* C11 (construction requires the address read-back): PZEM(uart, addr) makes
\* one readAddress exchange; it completes with status true only if that
\* exchange returned True, and otherwise fails with the error of code 0x02,
\* status staying false.
C11_ConstructionReadBack ==
    (call.op = "__init__" /\ call.arg \in 1..248 /\ nWrite = 1)
    => /\ uartLog = <<[f |-> "write", n |-> 8], [f |-> "read", n |-> 7]>>
       /\ constructed = "yes" => (status /\ ret = "None")
       /\ constructed # "yes" => (~status /\ ret = "Exception(0x02)")

\* C12 (one write then one read, no retry): a device operation makes exactly
\* one uart.write, of the request, and then exactly one uart.read, of at most
\* the expected reply length, and makes no further uart call whatever the
\* reply was (valid, corrupt, short, empty or none).
C12_OneWriteThenOneRead ==
    Called
    => /\ Len(uartLog) = 2
       /\ uartLog[1] = [f |-> "write", n |-> Len(frame)]
       /\ uartLog[2] = [f |-> "read", n |-> ExpectedLen[call.op]]
       /\ nWrite = 1 /\ nRead = 1
       /\ rcvFrame # NoData => Len(rcvFrame) <= ExpectedLen[call.op]

\* C12 witness: read() got 25 bytes with a wrong CRC, returned False and had
\* made its two uart calls only
C12_Witness ==
    /\ Called /\ call.op = "read" /\ Received(25) /\ ~checkCRC16(rcvFrame)
    /\ ret = "False"
    /\ uartLog = <<[f |-> "write", n |-> 8], [f |-> "read", n |-> 25]>>

\* C13 (exchange serialization): with two threads calling the same object,
\* between one operation's uart.write and its own uart.read no other operation
\* writes or reads, so a caller never takes bytes of the reply to the other
\* caller's request: every uart.read returns bytes of the reply to the
\* reader's own request only.
C13_ExchangesSerialized == lastRead.of \subseteq {lastRead.by}

\* The 25-byte function-code-0x04 reply read() has just accepted
AcceptedReading ==
    /\ Called /\ call.op = "read" /\ ret = "True"
    /\ Received(25) /\ Len(rcvFrame) = 25 /\ At(rcvFrame, 1) = 4

\* The bytes at offsets i..i+3 of the reply as low word first, high word second
LowWordFirst(i) ==
    (At(rcvFrame, i) * 256 + At(rcvFrame, i + 1))
    + (At(rcvFrame, i + 2) * 256 + At(rcvFrame, i + 3)) * 65536

\* C14 (32-bit field word order): after an accepted 25-byte 0x04 reply, Current
\* (offsets 5..8, /1000), ActivePower (9..12, /10) and ActiveEnergy (13..16,
\* /1000) hold (b0<<8 | b1) | (b2<<24 | b3<<16) of their four bytes: the first
\* register is the low word.  Current bytes 01 2C 00 00 give 300 / 1000.
C14_WordOrder32 ==
    AcceptedReading
    => /\ Current = [num |-> LowWordFirst(5), den |-> 1000]
       /\ ActivePower = [num |-> LowWordFirst(9), den |-> 10]
       /\ ActiveEnergy = [num |-> LowWordFirst(13), den |-> 1000]
       /\ SubSeq(rcvFrame, 6, 9) = <<1, 44, 0, 0>>
             => Current = [num |-> 300, den |-> 1000]

\* C14 witness: a reading whose Current registers are 0x1234, 0x5678 was
\* accepted and decoded with 0x5678 as the high word
C14_Witness ==
    /\ AcceptedReading
    /\ SubSeq(rcvFrame, 6, 9) = <<18, 52, 86, 120>>
    /\ Current = [num |-> 1450709556, den |-> 1000]

\* The bytes before the CRC of the request operation op(arg) sends from
\* session address a: address, function code, register, count or value
RequestBody(a, op, arg) ==
    CASE op = "read" -> <<a, 4, 0, 0, 0, 10>>
      [] op = "readAddress" -> <<a, 3, 0, 2, 0, 1>>
      [] op = "readThreshold" -> <<a, 3, 0, 1, 0, 1>>
      [] op = "setThreshold" -> <<a, 6, 0, 1, arg \div 256, arg % 256>>
      [] op = "setAddress" -> <<a, 6, 0, 2, arg \div 256, arg % 256>>
      [] op = "resetEnergy" -> <<a, 66>>

\* C15 (request frame layout): the frame a device operation writes is the
\* session address at the time of the call, the function code, the register
\* and the count or value as big-endian 16-bit numbers (resetEnergy: address
\* and 0x42 only), then the low and the high byte of getCRC16 of these bytes;
\* so it is 8 (resetEnergy: 4) bytes long and passes checkCRC16.
C15_RequestFrameLayout ==
    [][(constructed = "yes" /\ call'.op \in DeviceOps /\ nWrite' = 1)
          => /\ frame' = RequestBody(addr, call'.op, call'.arg)
                         \o <<getCRC16(RequestBody(addr, call'.op, call'.arg)) % 256,
                              getCRC16(RequestBody(addr, call'.op, call'.arg)) \div 256>>
             /\ Len(frame') = (IF call'.op = "resetEnergy" THEN 4 ELSE 8)
             /\ checkCRC16(frame')]_vars

\* C15 witness: setThreshold(0x0102) was sent from session address 0xF7
C15_Witness ==
    /\ Called /\ call = [op |-> "setThreshold", arg |-> 258] /\ nWrite = 1
    /\ addr = 247
    /\ Len(frame) = 8 /\ SubSeq(frame, 1, 6) = <<247, 6, 0, 1, 1, 2>>
    /\ checkCRC16(frame)

\* C16 (resetEnergy): resetEnergy returns True exactly when the reply is 4
\* bytes long, has a valid CRC and its function-code byte is no exception
\* code, whatever else the reply holds; and it changes no measurement,
\* threshold or address field.
C16_ResetEnergy ==
    [][(constructed = "yes" /\ call'.op = "resetEnergy")
          => /\ ret' = "True"
                  <=> /\ rcvFrame' # NoData /\ Len(rcvFrame') = 4
                      /\ checkCRC16(rcvFrame')
                      /\ At(rcvFrame', 1) \notin ExceptionCodes
             /\ Session' = Session]_vars

\* C17 (threshold and address operations keep apart): whatever the reply,
\* setThreshold and readThreshold leave the session address unchanged, and
\* setAddress and readAddress leave the threshold unchanged.
C17_ThresholdAddressApart ==
    [][(constructed = "yes" /\ (call'.op = "setAddress" => call'.arg \in 1..248))
          => /\ call'.op \in {"setThreshold", "readThreshold"} => addr' = addr
             /\ call'.op \in {"setAddress", "readAddress"} => threshold' = threshold]_vars

\* C18 (duration recorded on every outcome): every device operation leaves in
\* readingTime the time its own exchange took, from the start of the call to
\* the end of its uart calls, whether it succeeded, was rejected, timed out or
\* a uart call failed.
C18_DurationRecorded ==
    [][(constructed = "yes" /\ call'.op \in DeviceOps /\ nWrite' = 1)
          => readingTime' = tEnd' - tStart']_vars

RECURSIVE shiftRounds(_, _)
\* n rounds of the reflected CRC-16 shift register with polynomial 0xA001:
\* shift right by one, XOR the polynomial in when the bit shifted out was set
shiftRounds(acc, n) ==
    IF n = 0 THEN acc
    ELSE shiftRounds(IF acc % 2 = 1 THEN BitXor(acc \div 2, 40961) ELSE acc \div 2,
                     n - 1)

RECURSIVE modbusFrom(_, _, _)
\* The CRC-16/MODBUS register after bytes i.. of f, having been acc before
modbusFrom(acc, f, i) ==
    IF i > Len(f) THEN acc
    ELSE modbusFrom(shiftRounds(BitXor(acc, f[i]), 8), f, i + 1)

\* The bitwise CRC-16/MODBUS of f: initial value 0xFFFF
modbusCRC16(f) == modbusFrom(65535, f, 1)

\* C19 (CRC engine matches the reference): getCRC16 of a byte sequence equals
\* its bitwise reflected CRC-16/MODBUS (polynomial 0xA001, initial value
\* 0xFFFF, 8 rounds per byte), lies in 0..0xFFFF, and is 0xFFFF for the empty
\* sequence.  Checked on the message and on the whole frame in the CRC
\* harness, and, at its start, on every single byte.
C19_CrcMatchesReference ==
    /\ getCRC16(popped(crcBuf)) = modbusCRC16(popped(crcBuf))
    /\ getCRC16(crcBuf) = modbusCRC16(crcBuf)
    /\ getCRC16(crcBuf) \in 0..65535
    /\ popped(crcBuf) = <<>> => getCRC16(popped(crcBuf)) = 65535
    /\ crcBuf = <<255, 255>>
          => \A b \in 0..255 : getCRC16(<<b>>) = modbusCRC16(<<b>>)

\* C19 witness: the harness holds a corrupted four-byte frame whose first two
\* bytes have the CRC the reference gives, other than 0xFFFF
C19_Witness ==
    /\ Len(crcBuf) = 4 /\ crcFlip > 0
    /\ getCRC16(popped(crcBuf)) = modbusCRC16(popped(crcBuf))
    /\ getCRC16(popped(crcBuf)) # 65535

\* The bytes at offsets i, i+1 of the reply as a big-endian 16-bit number
BigEndian16(i) == At(rcvFrame, i) * 256 + At(rcvFrame, i + 1)

\* C20 (16-bit field decoding): after an accepted 25-byte 0x04 reply, Voltage
\* (offsets 3..4, /10), Frequency (17..18, /10), PowerFactor (19..20, /100)
\* and Allarms (21..22, unscaled) hold high byte << 8 | low byte of their two
\* bytes.  Voltage bytes 08 CA give 2250 / 10.
C20_Decode16 ==
    AcceptedReading
    => /\ Voltage = [num |-> BigEndian16(3), den |-> 10]
       /\ Frequency = [num |-> BigEndian16(17), den |-> 10]
       /\ PowerFactor = [num |-> BigEndian16(19), den |-> 100]
       /\ Allarms = BigEndian16(21)
       /\ SubSeq(rcvFrame, 4, 5) = <<8, 202>>
             => Voltage = [num |-> 2250, den |-> 10]

\* C20 witness: the reading with Voltage bytes 08 CA was accepted and decoded
\* as 225.0 V
C20_Witness ==
    /\ AcceptedReading
    /\ SubSeq(rcvFrame, 4, 5) = <<8, 202>>
    /\ Voltage = [num |-> 2250, den |-> 10]
    /\ Frequency = [num |-> 500, den |-> 10]

\* The target period of the polling loop in ms: sleep = 60 * 1000
sleep == 60000

\* The delay the polling loop asks time.sleep_ms for after a read
pollDelay == sleep - readingTime

\* The milliseconds between the two samples of the tick counter of the last
\* call, the counter having started again from 0 at most once in between
TrueElapsed == (tEnd - tStart) % TicksPeriod

\* C21 (duration is a true elapsed time): after every device operation
\* readingTime is non-negative and is the number of milliseconds between the
\* start of the call and the end of the uart read, also when the tick counter
\* wrapped around between the two samples; so the delay of the polling loop,
\* sleep - readingTime, is never more than the 60000 ms period.
C21_TrueElapsed ==
    (Called /\ nRead = 1)
        => /\ readingTime >= 0
           /\ readingTime = TrueElapsed
           /\ pollDelay <= sleep

\* C22 (CRC verification is read-only): checkCRC16 leaves the list passed to
\* it as it was: after a device operation whose reply went through the check,
\* the caller's list still has the length and the contents of the bytes
\* received, the two trailing CRC bytes included.
C22_CheckReadOnly ==
    (Called /\ nRead = 1 /\ Received(2))
        => /\ Len(rcvList) = Len(rcvFrame)
           /\ rcvList = rcvFrame

====
